---- MODULE Spec2Model ----
(***************************************************************************)
(* Census Income Prediction API (main.py): the process-wide counters, the  *)
(* artifacts loaded at import time, the request middleware and the route   *)
(* handlers, as a state machine over the HTTP requests in flight.          *)
(*                                                                         *)
(* A request passes three steps, the places where the event loop can       *)
(* switch to another request:                                              *)
(*   log_requests        middleware up to `await call_next(request)`       *)
(*   <route handler>     routing, body validation and the handler (the     *)
(*                       handlers contain no suspension point)             *)
(*   log_requests_return middleware after call_next, response returned     *)
(*                                                                         *)
(* The monitoring client (scripts/performance_monitor.py) that polls the   *)
(* API is the second process of the module; its specifications are         *)
(* SpecMonitor, SpecAlerts and SpecHistory.                                *)
(***************************************************************************)
EXTENDS Integers, Sequences, FiniteSets, Bags, TLC

(***************************************************************************)
(* Bounds of the model.                                                    *)
(***************************************************************************)
\* requests received over the life of the process
MaxRequests == 3
\* requests handled concurrently by the event loop
MaxInFlight == 2
\* monitoring cycles started by the monitor (beyond the history limit, where
\* the history is what is checked)
MaxCycles == 2
\* worker threads of a load test, where the threads are what is checked
MaxThreads == 2

VARIABLES
    encoder,            \* main.py:79/86   the fitted encoder, or None
    model,              \* main.py:80/87   the classifier, or None
    model_loaded,       \* main.py:81/85
    request_count,      \* main.py:26
    model_predictions,  \* main.py:27
    start_time,         \* main.py:28
    inflight,           \* the bag of requests being served
    n_received,         \* history: HTTP requests that reached the service
    n_succeeded,        \* history: prediction requests answered 200   (K)
    n_failed            \* history: prediction requests answered else  (M)

\* The monitoring client, scripts/performance_monitor.py (class APIMonitor)
VARIABLES
    running,            \* performance_monitor.py:30   self.running
    metrics_history,    \* performance_monitor.py:29   self.metrics_history
    monitor_pc,         \* where the monitor process stands
    metrics,            \* the cycle being collected (locals of collect_metrics)
    alert_log,          \* the ALERT lines written by logger.warning
    saved,              \* the files written by save_metrics, oldest first
    n_cycles,           \* history: cycles collected; cycle k is stamped k
    raising,            \* the exception propagating in the monitor, if any
    interrupted,        \* history: a KeyboardInterrupt was delivered
    http_log,           \* history: the HTTP requests sent in the current cycle
    logs_dir            \* the file system: the directory logs/ exists

\* One call of run_load_test, performance_monitor.py:137-176
VARIABLES
    load_pc,            \* where the calling thread stands in run_load_test
    num_requests,       \* its argument
    threads,            \* the worker threads (make_request), by index
    results,            \* results
    successful_requests,\* successful_requests
    response_times,     \* response_times
    load_test,          \* the dict being built and returned
    joined              \* history: what stood when the last join ended

loadtest == <<load_pc, num_requests, threads, results, successful_requests,
              response_times, load_test, joined>>

monitor == <<running, metrics_history, monitor_pc, metrics, alert_log, saved,
             n_cycles, raising, interrupted, http_log, logs_dir, loadtest>>

vars == <<encoder, model, model_loaded, request_count, model_predictions,
          start_time, inflight, n_received, n_succeeded, n_failed, monitor>>

(***************************************************************************)
(* The request schema: class Data, by wire alias.                          *)
(***************************************************************************)
IntFields == {"age", "fnlgt", "education-num", "capital-gain", "capital-loss",
              "hours-per-week"}

StrFields == {"workclass", "education", "marital-status", "occupation",
              "relationship", "race", "sex", "native-country"}

Fields == IntFields \cup StrFields

(***************************************************************************)
(* Request bodies.  A body is malformed JSON, or a JSON object that is one *)
(* of the valid attribute records (rec) with at most one field replaced:   *)
(*   "int"     a JSON integer                    37                        *)
(*   "numstr"  a JSON string holding an integer  "37"                      *)
(*   "text"    any other JSON string             "not_a_number"            *)
(*   "absent"  the key is missing                                          *)
(* or the empty object {}, in which every key is missing (field "*").      *)
(***************************************************************************)
RecIds == {"A", "B"}

NoBody == [kind |-> "none"]

MalformedBody == [kind |-> "malformed"]

JsonBody(r, f, v) == [kind |-> "json", rec |-> r, field |-> f, value |-> v]

ValidBody(r) == JsonBody(r, "none", "-")

Perturbations(f) == IF f \in IntFields THEN {"numstr", "text", "absent"}
                                       ELSE {"absent"}

EmptyBody == JsonBody("A", "*", "absent")

AllBodies == {MalformedBody, EmptyBody} \cup {ValidBody(r) : r \in RecIds}
             \cup UNION {{JsonBody("A", f, v) : v \in Perturbations(f)} : f \in Fields}

SampleBodies == {ValidBody("A"), ValidBody("B"), JsonBody("A", "age", "text")}

\* the JSON value a body supplies for field f
Value(body, f) ==
    IF body.field \in {f, "*"} THEN body.value
    ELSE IF f \in IntFields THEN "int" ELSE "text"

\* Mutation of FieldOk: the int fields are left untyped, so any value that is
\* present passes.
FieldOk_untyped_int(f, v) ==
    IF f \in IntFields THEN v \in {"int", "numstr", "text"}
                       ELSE v \in {"text", "numstr"}

\* pydantic's check of one field of Data: every field is required (Field(...));
\* an int field takes an integer or, by coercion, a string that holds one;
\* a str field takes a string
FieldOk(f, v) ==
    IF f \in IntFields THEN v \in {"int", "numstr"}
                       ELSE v \in {"text", "numstr"}

\* the `data: Data` parameter of predict_income and legacy_inference
Validate(body) ==
    /\ body.kind = "json"
    /\ \A f \in Fields : FieldOk(f, Value(body, f))

\* the Data object built from a valid body: coercion restores the record
Parse(body) == body.rec

(***************************************************************************)
(* The artifacts.  ml.model.load_model unpickles an opaque object; the     *)
(* classifier is any fixed map from an attribute record to a probability   *)
(* (in percent) of the class 1.                                            *)
(***************************************************************************)
None == [type |-> "NoneType"]

EncoderArtifact == [type |-> "OneHotEncoder"]

ProbLevels == {20, 50, 90}

ModelArtifacts == {[type |-> "RandomForestClassifier", proba |-> p] :
                       p \in [RecIds -> ProbLevels]}

Labels == {">50K", "<=50K"}

\* model.predict_proba(X): the row of class probabilities, class 0 first
predict_proba(m, x) == <<100 - m.proba[x], m.proba[x]>>

\* ml.model.inference(model, X) = model.predict(X): the class of the largest
\* probability, the first one on a tie
inference(m, x) == IF predict_proba(m, x)[2] > predict_proba(m, x)[1] THEN 1 ELSE 0

\* ml.data.apply_label
apply_label(pred) == IF pred = 1 THEN ">50K" ELSE "<=50K"

\* Mutation of Confidence: the probability of the positive class,
\* prediction_proba[0][1], instead of the largest one.
Confidence_positive_class(row) == row[2]

\* np.max(prediction_proba)
Confidence(row) == IF row[1] >= row[2] THEN row[1] ELSE row[2]

(***************************************************************************)
(* The body of predict_income's try block, statement by statement.  Any of *)
(* the calls may raise; Faults names the statement that does.              *)
(***************************************************************************)
Pipeline == <<"process_data", "inference", "apply_label", "update_metrics",
              "PredictionResponse">>

Faults == {"none", "process_data", "inference", "apply_label", "PredictionResponse"}

StageIndex(st) == CHOOSE i \in 1..Len(Pipeline) : Pipeline[i] = st

\* the statements that completed when `fault` raised
Completed(fault) ==
    IF fault = "none" THEN Pipeline
    ELSE SubSeq(Pipeline, 1, StageIndex(fault) - 1)

Ran(stages, st) == \E i \in 1..Len(stages) : stages[i] = st

\* str(e) of the exception a statement raises
ExcText(fault) == <<"internal error in", fault>>

NoResult == [prediction |-> "", confidence |-> -1, model_version |-> ""]

\* main.py:205: raise HTTPException(status_code=503, ...)
ModelUnavailable ==
    [raised |-> TRUE, status_code |-> 503, detail |-> <<"Model not available">>,
     result |-> NoResult, ran |-> <<>>, model_predictions |-> model_predictions]

\* Mutation of TryPredict: the except clause logs the error and answers
\* with an empty result instead of raising HTTPException(500).
TryPredict_swallowed(data, fault) ==
    LET prediction_label == apply_label(inference(model, data))
        ran              == Completed(fault)
        counted          == IF Ran(ran, "update_metrics")
                            THEN [model_predictions EXCEPT
                                     ![prediction_label] = @ + 1]
                            ELSE model_predictions
    IN  [raised |-> FALSE, status_code |-> 200, detail |-> <<>>,
         result |-> IF fault = "none"
                    THEN [prediction |-> prediction_label,
                          confidence |-> Confidence(predict_proba(model, data)),
                          model_version |-> "v1.0.0"]
                    ELSE NoResult,
         ran |-> ran, model_predictions |-> counted]

\* Mutation of TryPredict: the confidence is damped by the number of
\* predictions already counted, so the answer depends on the service state.
TryPredict_stateful(data, fault) ==
    LET prediction_label == apply_label(inference(model, data))
        served           == model_predictions[">50K"] + model_predictions["<=50K"]
        ran              == Completed(fault)
        counted          == IF Ran(ran, "update_metrics")
                            THEN [model_predictions EXCEPT
                                     ![prediction_label] = @ + 1]
                            ELSE model_predictions
    IN  IF fault = "none"
        THEN [raised |-> FALSE, status_code |-> 200, detail |-> <<>>,
              result |-> [prediction |-> prediction_label,
                          confidence |-> Confidence(predict_proba(model, data))
                                           - served,
                          model_version |-> "v1.0.0"],
              ran |-> ran, model_predictions |-> counted]
        ELSE [raised |-> TRUE, status_code |-> 500,
              detail |-> <<"Prediction failed: ">> \o ExcText(fault),
              result |-> NoResult, ran |-> ran,
              model_predictions |-> counted]

\* main.py:207-256, the try block and its except clause, with the statement
\* that raises (if any): whether it ends in an HTTPException, the status and
\* detail, the PredictionResponse, the statements it ran, and the value it
\* leaves in model_predictions
TryPredict(data, fault) ==
    LET prediction_proba == predict_proba(model, data)
        prediction       == inference(model, data)
        prediction_label == apply_label(prediction)
        confidence       == Confidence(prediction_proba)
        ran              == Completed(fault)
        counted          == IF Ran(ran, "update_metrics")
                            THEN [model_predictions EXCEPT
                                     ![prediction_label] = @ + 1]
                            ELSE model_predictions
    IN  IF fault = "none"
        THEN [raised |-> FALSE, status_code |-> 200, detail |-> <<>>,
              result |-> [prediction |-> prediction_label,
                          confidence |-> confidence,
                          model_version |-> "v1.0.0"],
              ran |-> ran, model_predictions |-> counted]
        ELSE [raised |-> TRUE, status_code |-> 500,
              detail |-> <<"Prediction failed: ">> \o ExcText(fault),
              result |-> NoResult, ran |-> ran,
              model_predictions |-> counted]

\* Mutation of predict_income: model_loaded is tested inside the try block,
\* so the HTTPException(503) is caught and turned into a 500.
predict_income_guard_in_try(data, fault) ==
    IF ~model_loaded THEN [ModelUnavailable EXCEPT !.status_code = 500]
                     ELSE TryPredict(data, fault)

\* predict_income(data)
predict_income(data, fault) ==
    IF ~model_loaded THEN ModelUnavailable
                     ELSE TryPredict(data, fault)

(***************************************************************************)
(* Requests in flight.                                                     *)
(***************************************************************************)
GetRoutes == {"GET /", "GET /v1/health", "GET /v1/metrics", "GET /v1/model/info",
              "GET /v1/nonexistent"}

PostRoutes == {"POST /v1/predict", "POST /data/"}

NoResponse == [status_code |-> 0, content |-> [none |-> TRUE]]

\* a request the middleware has just passed on
Arrived == [pc |-> "call_next", route |-> "", body |-> NoBody,
            response |-> NoResponse, ran |-> <<>>, fault |-> "none"]

\* the requests a client can send, with bodies drawn from `bodies`
Requests(bodies) ==
    {[route |-> r, body |-> NoBody] : r \in GetRoutes}
    \cup {[route |-> r, body |-> b] : r \in PostRoutes, b \in bodies}

\* the requests being served
InFlight == BagToSet(inflight)

Routed(r, route) == r \in InFlight /\ r.pc = "call_next" /\ r.route = route

\* the handler's response reaches the middleware
Reply(r, response, ran, fault) ==
    inflight' = (inflight (-) SetToBag({r}))
                (+) SetToBag({[r EXCEPT !.pc = "responded",
                                        !.response = response,
                                        !.ran = ran,
                                        !.fault = fault]})

\* a prediction request was answered: K or M grows
Tally(response) ==
    /\ n_succeeded' = IF response.status_code = 200 THEN n_succeeded + 1
                                                    ELSE n_succeeded
    /\ n_failed' = IF response.status_code = 200 THEN n_failed
                                                 ELSE n_failed + 1

(***************************************************************************)
(* Startup: the module-level code of main.py.                              *)
(***************************************************************************)
\* Mutation of LoadModels: the except clause resets model_loaded and model
\* only, so an encoder that loaded before the model failed is kept.
LoadModels_encoder_kept(encoder_loads, model_loads, artifact) ==
    IF encoder_loads /\ model_loads
    THEN /\ encoder = EncoderArtifact
         /\ model = artifact
         /\ model_loaded = TRUE
    ELSE /\ model_loaded = FALSE
         /\ encoder = IF encoder_loads THEN EncoderArtifact ELSE None
         /\ model = None

\* main.py:75-87, for each outcome of the two load_model calls
LoadModels(encoder_loads, model_loads, artifact) ==
    IF encoder_loads /\ model_loads
    THEN /\ encoder = EncoderArtifact
         /\ model = artifact
         /\ model_loaded = TRUE
    ELSE /\ model_loaded = FALSE
         /\ encoder = None
         /\ model = None

Init ==
    /\ \E encoder_loads \in BOOLEAN, model_loads \in BOOLEAN,
          artifact \in ModelArtifacts :
            LoadModels(encoder_loads, model_loads, artifact)
    /\ request_count = 0
    /\ model_predictions = [l \in Labels |-> 0]
    /\ start_time = 0
    /\ inflight = EmptyBag
    /\ n_received = 0
    /\ n_succeeded = 0
    /\ n_failed = 0
    \* the monitor process, about to construct its APIMonitor
    /\ running = FALSE
    /\ metrics_history = <<>>
    /\ monitor_pc = "init"
    /\ metrics = [timestamp |-> 0]
    /\ alert_log = <<>>
    /\ saved = <<>>
    /\ n_cycles = 0
    /\ raising = "none"
    /\ interrupted = FALSE
    /\ http_log = <<>>
    /\ logs_dir = FALSE
    /\ load_pc = [at |-> "idle", thread |-> 0]
    /\ num_requests = 0
    /\ threads = <<>>
    /\ results = <<>>
    /\ successful_requests = 0
    /\ response_times = <<>>
    /\ load_test = [status |-> "pending"]
    /\ joined = [status |-> "pending"]

(***************************************************************************)
(* The middleware.                                                         *)
(***************************************************************************)
\* log_requests up to `await call_next(request)`, with at most `limit`
\* requests being served at once
log_requests(req, limit) ==
    /\ n_received < MaxRequests
    /\ BagCardinality(inflight) < limit
    /\ request_count' = request_count + 1
    /\ n_received' = n_received + 1
    /\ inflight' = inflight (+) SetToBag({[Arrived EXCEPT !.route = req.route,
                                                         !.body = req.body]})
    /\ UNCHANGED <<monitor, start_time, encoder, model, model_loaded,
                   model_predictions,
                   n_succeeded, n_failed>>

\* log_requests after call_next: the response is logged and returned
log_requests_return(r) ==
    /\ r \in InFlight
    /\ r.pc = "responded"
    /\ inflight' = inflight (-) SetToBag({r})
    /\ UNCHANGED <<monitor, start_time, encoder, model, model_loaded,
                   request_count,
                   model_predictions, n_received, n_succeeded, n_failed>>

(***************************************************************************)
(* The route handlers.                                                     *)
(***************************************************************************)
get_root(r) ==
    /\ Routed(r, "GET /")
    /\ Reply(r, [status_code |-> 200,
                 content |-> [message |-> "Welcome to the Census Income Prediction API",
                              version |-> "1.0.0"]], <<>>, "none")
    /\ UNCHANGED <<monitor, start_time, encoder, model, model_loaded,
                   request_count,
                   model_predictions, n_received, n_succeeded, n_failed>>

\* Mutation of HealthResponse: the status is the literal "healthy".
HealthResponse_literal ==
    [status_code |-> 200,
     content |-> [status |-> "healthy",
                  model_loaded |-> model_loaded,
                  version |-> "1.0.0"]]

HealthResponse ==
    [status_code |-> 200,
     content |-> [status |-> IF model_loaded THEN "healthy" ELSE "unhealthy",
                  model_loaded |-> model_loaded,
                  version |-> "1.0.0"]]

health_check(r) ==
    /\ Routed(r, "GET /v1/health")
    /\ Reply(r, HealthResponse, <<>>, "none")
    /\ UNCHANGED <<monitor, start_time, encoder, model, model_loaded,
                   request_count,
                   model_predictions, n_received, n_succeeded, n_failed>>

\* Mutation of copy: no copy is taken, the response holds the global dict
\* itself.
copy_aliased(d) == [object |-> "model_predictions", items |-> d]

\* model_predictions.copy(): a new dict object holding the items of d
copy(d) == [object |-> "copy", items |-> d]

\* the items a dict object holds now: those of the global dict if it is that
\* one, its own otherwise
Items(dict) == IF dict.object = "model_predictions" THEN model_predictions
                                                     ELSE dict.items

get_metrics(r) ==
    /\ Routed(r, "GET /v1/metrics")
    /\ Reply(r, [status_code |-> 200,
                 content |-> [request_count |-> request_count,
                              prediction_distribution |->
                                  copy(model_predictions)]],
             <<>>, "none")
    /\ UNCHANGED <<monitor, start_time, encoder, model, model_loaded,
                   request_count,
                   model_predictions, n_received, n_succeeded, n_failed>>

Features == <<"age", "workclass", "fnlgt", "education", "education-num",
              "marital-status", "occupation", "relationship", "race", "sex",
              "capital-gain", "capital-loss", "hours-per-week", "native-country">>

TargetClasses == <<">50K", "<=50K">>

\* Mutation of ModelInfo: the model_loaded test is missing.
ModelInfo_unguarded ==
    [status_code |-> 200,
     content |-> [model_type |-> "RandomForestClassifier",
                  features |-> Features,
                  target_classes |-> TargetClasses,
                  model_version |-> "v1.0.0"]]

\* Mutation of ModelInfo: the features list lacks its last name.
ModelInfo_short ==
    IF ~model_loaded
    THEN [status_code |-> 503, content |-> [detail |-> <<"Model not loaded">>]]
    ELSE [status_code |-> 200,
          content |-> [model_type |-> "RandomForestClassifier",
                       features |-> SubSeq(Features, 1, Len(Features) - 1),
                       target_classes |-> TargetClasses,
                       model_version |-> "v1.0.0"]]

ModelInfo ==
    IF ~model_loaded
    THEN [status_code |-> 503, content |-> [detail |-> <<"Model not loaded">>]]
    ELSE [status_code |-> 200,
          content |-> [model_type |-> "RandomForestClassifier",
                       features |-> Features,
                       target_classes |-> TargetClasses,
                       model_version |-> "v1.0.0"]]

get_model_info(r) ==
    /\ Routed(r, "GET /v1/model/info")
    /\ Reply(r, ModelInfo, <<>>, "none")
    /\ UNCHANGED <<monitor, start_time, encoder, model, model_loaded,
                   request_count,
                   model_predictions, n_received, n_succeeded, n_failed>>

\* no route matches: the router's 404
not_found(r) ==
    /\ Routed(r, "GET /v1/nonexistent")
    /\ Reply(r, [status_code |-> 404, content |-> [detail |-> <<"Not Found">>]],
             <<>>, "none")
    /\ UNCHANGED <<monitor, start_time, encoder, model, model_loaded,
                   request_count,
                   model_predictions, n_received, n_succeeded, n_failed>>

\* the body does not validate as Data: the handler is not called
ValidationError == [status_code |-> 422, content |-> [detail |-> <<"validation error">>]]

\* what POST /v1/predict answers for an outcome of predict_income
PredictResponse(out) ==
    IF out.raised
    THEN [status_code |-> out.status_code, content |-> [detail |-> out.detail]]
    ELSE [status_code |-> 200, content |-> out.result]

\* Mutation of LegacyResponse: the JSONResponse of the except clause lacks
\* status_code=e.status_code and so answers 200.
LegacyResponse_status_lost(out) ==
    IF out.raised
    THEN [status_code |-> 200, content |-> [error |-> out.detail]]
    ELSE [status_code |-> 200, content |-> [result |-> out.result.prediction]]

\* what legacy_inference answers for an outcome of predict_income
LegacyResponse(out) ==
    IF out.raised
    THEN [status_code |-> out.status_code, content |-> [error |-> out.detail]]
    ELSE [status_code |-> 200, content |-> [result |-> out.result.prediction]]

\* POST /v1/predict
v1_predict(r) ==
    /\ Routed(r, "POST /v1/predict")
    /\ IF ~Validate(r.body)
       THEN /\ Reply(r, ValidationError, <<>>, "none")
            /\ Tally(ValidationError)
            /\ UNCHANGED model_predictions
       ELSE \E fault \in Faults :
              LET out == predict_income(Parse(r.body), fault)
              IN  /\ Reply(r, PredictResponse(out), out.ran,
                           IF model_loaded THEN fault ELSE "none")
                  /\ Tally(PredictResponse(out))
                  /\ model_predictions' = out.model_predictions
    /\ UNCHANGED <<monitor, start_time, encoder, model, model_loaded,
                   request_count, n_received>>

\* Mutation of legacy_inference: the legacy route re-enters the service as a
\* second HTTP request to /v1/predict, so the middleware counts it again.
legacy_inference_recounted(r) ==
    /\ Routed(r, "POST /data/")
    /\ IF ~Validate(r.body)
       THEN /\ Reply(r, ValidationError, <<>>, "none")
            /\ Tally(ValidationError)
            /\ UNCHANGED model_predictions
       ELSE \E fault \in Faults :
              LET out == predict_income(Parse(r.body), fault)
              IN  /\ Reply(r, LegacyResponse(out), out.ran,
                           IF model_loaded THEN fault ELSE "none")
                  /\ Tally(LegacyResponse(out))
                  /\ model_predictions' = out.model_predictions
    /\ request_count' = request_count + 1
    /\ UNCHANGED <<monitor, start_time, encoder, model, model_loaded,
                   n_received>>

\* POST /data/
legacy_inference(r) ==
    /\ Routed(r, "POST /data/")
    /\ IF ~Validate(r.body)
       THEN /\ Reply(r, ValidationError, <<>>, "none")
            /\ Tally(ValidationError)
            /\ UNCHANGED model_predictions
       ELSE \E fault \in Faults :
              LET out == predict_income(Parse(r.body), fault)
              IN  /\ Reply(r, LegacyResponse(out), out.ran,
                           IF model_loaded THEN fault ELSE "none")
                  /\ Tally(LegacyResponse(out))
                  /\ model_predictions' = out.model_predictions
    /\ UNCHANGED <<monitor, start_time, encoder, model, model_loaded,
                   request_count, n_received>>

(***************************************************************************)
(* Spec: up to MaxInFlight requests interleave; bodies from SampleBodies.  *)
(* SpecSeq: one request at a time; bodies from AllBodies.                  *)
(***************************************************************************)
Next ==
    \/ \E req \in Requests(SampleBodies) : log_requests(req, MaxInFlight)
    \/ \E r \in InFlight : get_root(r)
    \/ \E r \in InFlight : health_check(r)
    \/ \E r \in InFlight : get_metrics(r)
    \/ \E r \in InFlight : get_model_info(r)
    \/ \E r \in InFlight : v1_predict(r)
    \/ \E r \in InFlight : legacy_inference(r)
    \/ \E r \in InFlight : not_found(r)
    \/ \E r \in InFlight : log_requests_return(r)

Spec == Init /\ [][Next]_vars

NextSeq ==
    \/ \E req \in Requests(AllBodies) : log_requests(req, 1)
    \/ \E r \in InFlight : get_root(r)
    \/ \E r \in InFlight : health_check(r)
    \/ \E r \in InFlight : get_metrics(r)
    \/ \E r \in InFlight : get_model_info(r)
    \/ \E r \in InFlight : v1_predict(r)
    \/ \E r \in InFlight : legacy_inference(r)
    \/ \E r \in InFlight : not_found(r)
    \/ \E r \in InFlight : log_requests_return(r)

SpecSeq == Init /\ [][NextSeq]_vars

(***************************************************************************)
(* Vocabulary of the properties.                                           *)
(***************************************************************************)
\* the requests whose response has been produced and not yet returned
Responded == {r \in InFlight : r.pc = "responded"}

RespondedOn(route) == {r \in Responded : r.route = route}

\* the prediction requests, on either route, that have been answered
Predicted == {r \in Responded : r.route \in PostRoutes}

\* sum(prediction_distribution.values())
DistributionSum == model_predictions[">50K"] + model_predictions["<=50K"]

\* the label a 200 answer of a prediction route carries
LabelOf(r) == IF r.route = "POST /data/" THEN r.response.content.result
                                         ELSE r.response.content.prediction

\* number of copies of request record r in a bag
Copies(bag, r) == IF BagIn(r, bag) THEN CopiesIn(r, bag) ELSE 0

(***************************************************************************)
(* C1.  Every HTTP request received increments request_count by exactly    *)
(* one, whatever its route and outcome; a POST /data/ request is counted   *)
(* once although it runs the /v1/predict logic: at every moment the        *)
(* counter equals the number of requests that reached the service.         *)
(***************************************************************************)
C1_CountedOnce == request_count = n_received

\* a POST /data/ request was answered 200 and the counter stands at one
C1_Witness ==
    /\ request_count = 1
    /\ \E r \in RespondedOn("POST /data/") : r.response.status_code = 200

(***************************************************************************)
(* C2.  After K successful predictions and M failed ones,                  *)
(* request_count >= K + M and the prediction_distribution counters sum to  *)
(* exactly K.                                                              *)
(***************************************************************************)
C2_CounterProperty ==
    /\ request_count >= n_succeeded + n_failed
    /\ DistributionSum = n_succeeded

(***************************************************************************)
(* C3.  A step that answers a prediction request with 200 increments the   *)
(* counter of the returned label by exactly one and no other counter; a    *)
(* step that answers one with a failure (422, 503, 500) leaves every       *)
(* prediction_distribution counter unchanged.                              *)
(***************************************************************************)
C3_Step ==
    /\ n_failed' = n_failed + 1 => model_predictions' = model_predictions
    /\ n_succeeded' = n_succeeded + 1 =>
         \E r \in BagToSet(inflight') :
            /\ Copies(inflight', r) > Copies(inflight, r)
            /\ r.pc = "responded"
            /\ r.response.status_code = 200
            /\ model_predictions' =
                 [model_predictions EXCEPT ![LabelOf(r)] = @ + 1]

C3_CountedOnSuccessOnly == [][C3_Step]_vars

\* the body is well-formed JSON holding every field with a value pydantic
\* takes for it
Acceptable(body) ==
    /\ body.kind = "json"
    /\ \/ body.field = "none"
       \/ body.field \in IntFields /\ body.value \in {"int", "numstr"}
       \/ body.field \in StrFields /\ body.value \in {"text", "numstr"}

\* the body is not JSON
Malformed(body) == body.kind = "malformed"

\* the body lacks a required field
MissingField(body) == body.kind = "json" /\ body.value = "absent"

\* the body gives an int field as a string
StringForInt(body) ==
    /\ body.kind = "json"
    /\ body.field \in IntFields
    /\ body.value \in {"numstr", "text"}

\* the body gives an int field as a string that holds no integer
NotCoercible(body) ==
    /\ body.kind = "json"
    /\ body.field \in IntFields
    /\ body.value = "text"

ZeroDistribution == [l \in Labels |-> 0]

(***************************************************************************)
(* C4 as stated.  When the artifacts failed to load, /v1/health reports    *)
(* model_loaded=false and POST /v1/predict answers 503 for every request,  *)
(* without running encoding or inference and without changing              *)
(* prediction_distribution.                                                *)
(***************************************************************************)
C4_Original ==
    ~model_loaded =>
        /\ \A r \in RespondedOn("GET /v1/health") :
              r.response.content.model_loaded = FALSE
        /\ \A r \in RespondedOn("POST /v1/predict") :
              r.response.status_code = 503 /\ r.ran = <<>>
        /\ model_predictions = ZeroDistribution

(***************************************************************************)
(* C4 amended.  When the artifacts failed to load, /v1/health reports      *)
(* model_loaded=false and POST /v1/predict answers 503 for every request   *)
(* whose body validates and 422 for every other one, in both cases without *)
(* running encoding or inference and without changing                      *)
(* prediction_distribution.                                                *)
(***************************************************************************)
C4_Unavailable ==
    ~model_loaded =>
        /\ \A r \in RespondedOn("GET /v1/health") :
              r.response.content.model_loaded = FALSE
        /\ \A r \in RespondedOn("POST /v1/predict") :
              /\ r.response.status_code = IF Acceptable(r.body) THEN 503 ELSE 422
              /\ r.ran = <<>>
        /\ model_predictions = ZeroDistribution

\* not loaded, and a valid prediction request was answered 503
C4_Witness ==
    /\ ~model_loaded
    /\ \E r \in RespondedOn("POST /v1/predict") :
          Acceptable(r.body) /\ r.response.status_code = 503

(***************************************************************************)
(* C5 as stated.  A POST /v1/predict request that is malformed, misses a   *)
(* required field or gives an int field as a string is answered 422 and    *)
(* never reaches the encoding/inference pipeline.                          *)
(***************************************************************************)
C5_Original ==
    \A r \in RespondedOn("POST /v1/predict") :
        (Malformed(r.body) \/ MissingField(r.body) \/ StringForInt(r.body)) =>
            r.response.status_code = 422 /\ r.ran = <<>>

(***************************************************************************)
(* C5 amended.  A POST /v1/predict request that is malformed, misses a     *)
(* required field or gives an int field a string that holds no integer is  *)
(* answered 422 and never reaches the encoding/inference pipeline (a       *)
(* string that holds an integer, such as "37", is coerced and accepted).   *)
(***************************************************************************)
C5_Rejected ==
    \A r \in RespondedOn("POST /v1/predict") :
        (Malformed(r.body) \/ MissingField(r.body) \/ NotCoercible(r.body)) =>
            r.response.status_code = 422 /\ r.ran = <<>>

\* model loaded, age given as "not_a_number", answered 422
C5_Witness ==
    /\ model_loaded
    /\ \E r \in RespondedOn("POST /v1/predict") :
          /\ r.body = JsonBody("A", "age", "text")
          /\ r.response.status_code = 422

(***************************************************************************)
(* C6.  With the model loaded and a valid record, a failure raised by      *)
(* feature encoding, inference, label formatting or response assembly      *)
(* makes POST /v1/predict answer 500, as a response the middleware         *)
(* returns like any other.                                                 *)
(***************************************************************************)
C6_FailureAnswers500 ==
    \A r \in RespondedOn("POST /v1/predict") :
        (model_loaded /\ Acceptable(r.body) /\ r.fault # "none") =>
            /\ r.response.status_code = 500
            /\ ENABLED log_requests_return(r)

\* a prediction failed with 500 after its label was counted, and a later
\* prediction request is answered 200
C6_Witness ==
    /\ model_loaded
    /\ DistributionSum > n_succeeded
    /\ \E r \in RespondedOn("POST /v1/predict") : r.response.status_code = 200

(***************************************************************************)
(* C7.  Health is fixed at startup: no step changes model_loaded or the    *)
(* artifacts, and every /v1/health answer says "healthy" exactly when both *)
(* artifacts loaded and "unhealthy" otherwise.                             *)
(***************************************************************************)
C7_HealthFixed ==
    /\ [][model_loaded' = model_loaded /\ encoder' = encoder /\ model' = model]_vars
    /\ [](\A r \in RespondedOn("GET /v1/health") :
            r.response.content.status =
               IF encoder # None /\ model # None THEN "healthy" ELSE "unhealthy")

\* a prediction failed with 500 earlier and /v1/health still answers healthy
C7_Witness ==
    /\ DistributionSum > n_succeeded
    /\ \E r \in RespondedOn("GET /v1/health") :
          r.response.content.status = "healthy"

(***************************************************************************)
(* C8.  GET /, GET /v1/health and GET /v1/metrics answer 200 in both       *)
(* health states; GET /v1/model/info answers 503 exactly when the model is *)
(* not loaded and 200 otherwise; an unknown route answers 404.             *)
(***************************************************************************)
C8_RouteStatus ==
    \A r \in Responded :
        /\ r.route \in {"GET /", "GET /v1/health", "GET /v1/metrics"} =>
              r.response.status_code = 200
        /\ r.route = "GET /v1/model/info" =>
              r.response.status_code = IF model_loaded THEN 200 ELSE 503
        /\ r.route = "GET /v1/nonexistent" => r.response.status_code = 404

\* not loaded, and /v1/model/info answered 503
C8_Witness ==
    /\ ~model_loaded
    /\ \E r \in RespondedOn("GET /v1/model/info") : r.response.status_code = 503

\* the answer lists exactly 14 distinct feature names and the two classes
ReportsSchema(response) ==
    /\ "features" \in DOMAIN response.content
    /\ Len(response.content.features) = 14
    /\ Cardinality({response.content.features[i] :
                       i \in 1..Len(response.content.features)}) = 14
    /\ "target_classes" \in DOMAIN response.content
    /\ Len(response.content.target_classes) = 2
    /\ {response.content.target_classes[i] :
           i \in 1..Len(response.content.target_classes)} = {">50K", "<=50K"}

(***************************************************************************)
(* C9 as stated.  /v1/model/info reports exactly 14 feature names and      *)
(* exactly 2 target classes in every state of the service.                 *)
(***************************************************************************)
C9_Original ==
    \A r \in RespondedOn("GET /v1/model/info") : ReportsSchema(r.response)

(***************************************************************************)
(* C9 amended.  Whenever the model is loaded, /v1/model/info reports       *)
(* exactly 14 feature names and exactly 2 target classes, >50K and <=50K   *)
(* (when it is not loaded the answer is the 503 error, which reports       *)
(* neither).                                                               *)
(***************************************************************************)
C9_Schema ==
    \A r \in RespondedOn("GET /v1/model/info") :
        IF model_loaded THEN ReportsSchema(r.response)
                        ELSE "features" \notin DOMAIN r.response.content

\* loaded, and /v1/model/info was answered
C9_Witness ==
    /\ model_loaded
    /\ \E r \in RespondedOn("GET /v1/model/info") : r.response.status_code = 200

(***************************************************************************)
(* C10.  POST /data/ is equivalent to POST /v1/predict for the label: two  *)
(* requests with the same body, one on each route, served in the same      *)
(* model state and meeting the same failure (if any), get the same status  *)
(* code, and on success the legacy body is {result: L} with L the label    *)
(* /v1/predict returns.                                                    *)
(***************************************************************************)
C10_LegacyEquivalent ==
    \A p \in RespondedOn("POST /v1/predict"), l \in RespondedOn("POST /data/") :
        (p.body = l.body /\ p.fault = l.fault) =>
            /\ l.response.status_code = p.response.status_code
            /\ p.response.status_code = 200 =>
                  l.response.content = [result |-> p.response.content.prediction]

\* the same valid body was answered 200 on both routes
C10_Witness ==
    \E p \in RespondedOn("POST /v1/predict"), l \in RespondedOn("POST /data/") :
        /\ p.body = l.body
        /\ p.response.status_code = 200
        /\ l.response.status_code = 200

C12_LabelAndConfidence ==
    \A p \in RespondedOn("POST /v1/predict") :
        p.response.status_code = 200 =>
            LET row  == predict_proba(model, Parse(p.body))
                conf == p.response.content.confidence
            IN  /\ model_loaded
                /\ p.response.content.prediction \in {">50K", "<=50K"}
                /\ conf \in 0..100
                /\ \E i \in 1..Len(row) : conf = row[i]
                /\ \A i \in 1..Len(row) : conf >= row[i]

\* a record whose positive class is the less likely one was answered 200
C12_Witness ==
    \E p \in RespondedOn("POST /v1/predict") :
        /\ p.response.status_code = 200
        /\ p.response.content.prediction = "<=50K"
        /\ predict_proba(model, Parse(p.body))[2] < p.response.content.confidence

\* the detail of an error answer, on either prediction route
DetailOf(r) == IF r.route = "POST /data/" THEN r.response.content.error
                                          ELSE r.response.content.detail

\* the words of sequence s
Words(s) == {s[i] : i \in 1..Len(s)}

(***************************************************************************)
(* C13.  When encoding or inference fails, the response contains only a    *)
(* generic message and never the text of the internal exception (which     *)
(* goes to the server log only).                                           *)
(***************************************************************************)
C13_NoLeak ==
    \A r \in Predicted :
        r.fault # "none" =>
            Words(DetailOf(r)) \cap Words(ExcText(r.fault)) = {}

(***************************************************************************)
(* C14.  Under every interleaving of concurrent requests no increment is   *)
(* lost: once all requests have completed, request_count equals the number *)
(* of requests received and the prediction_distribution counters sum to    *)
(* the number of successful predictions.                                   *)
(***************************************************************************)
C14_NoLostUpdate ==
    inflight = EmptyBag =>
        /\ request_count = n_received
        /\ DistributionSum = n_succeeded

\* the half of C14 that holds: no increment of either counter is lost
C14_NothingLost ==
    inflight = EmptyBag =>
        /\ request_count = n_received
        /\ DistributionSum >= n_succeeded

\* the routes that only report ServiceState
ReadRoutes == {"GET /v1/metrics", "GET /v1/health"}

\* this step is the middleware receiving a request on one of `routes`
Receives(routes) ==
    \E r \in BagToSet(inflight') :
        /\ r.route \in routes
        /\ r.pc = "call_next"
        /\ Copies(inflight', r) > Copies(inflight, r)

\* this step is the handler answering, or the middleware returning, a
\* request on one of `routes`
Serves(routes) ==
    \E r \in InFlight :
        /\ r.route \in routes
        /\ Copies(inflight', r) < Copies(inflight, r)

(***************************************************************************)
(* C15 as stated.  Serving GET /v1/metrics or GET /v1/health is a pure     *)
(* read: no step of such a request, from its reception to its return,      *)
(* changes request_count, prediction_distribution or the start time.       *)
(***************************************************************************)
C15_OriginalStep ==
    (Receives(ReadRoutes) \/ Serves(ReadRoutes)) =>
        /\ request_count' = request_count
        /\ model_predictions' = model_predictions
        /\ start_time' = start_time

C15_Original == [][C15_OriginalStep]_vars

\* the distribution a /v1/metrics answer holds is the one read by the handler
C15_Snapshot ==
    \A r \in RespondedOn("GET /v1/metrics") :
        Items(r.response.content.prediction_distribution)
            = r.response.content.prediction_distribution.items

C15_Step ==
    /\ Serves(ReadRoutes) =>
          /\ request_count' = request_count
          /\ model_predictions' = model_predictions
          /\ start_time' = start_time
    /\ Receives(ReadRoutes) =>
          /\ request_count' = request_count + 1
          /\ model_predictions' = model_predictions
          /\ start_time' = start_time

(***************************************************************************)
(* C15 amended.  The handlers of GET /v1/metrics and GET /v1/health only   *)
(* read ServiceState: they change neither request_count nor                *)
(* prediction_distribution nor the start time.  The request as a whole     *)
(* changes request_count by the one increment the middleware makes for     *)
(* every request, and nothing else.  The distribution returned by          *)
(* /v1/metrics is a snapshot that later predictions do not alter.          *)
(***************************************************************************)
C15_PureRead == [][C15_Step]_vars /\ []C15_Snapshot

\* a /v1/metrics answer still in flight reports a distribution that a later
\* prediction has since changed in the service
C15_Witness ==
    \E r \in RespondedOn("GET /v1/metrics") :
        /\ r.response.content.prediction_distribution.items # model_predictions
        /\ r.response.content.request_count < request_count

(***************************************************************************)
(* The monitoring client: scripts/performance_monitor.py, class APIMonitor.*)
(* It polls the service as a black-box HTTP client.  In the specifications *)
(* of the monitor the service stays in the state it was loaded in and      *)
(* answers as its handlers do in that state; what the service records of   *)
(* the requests it receives is the subject of Spec and SpecSeq.            *)
(***************************************************************************)
service == <<encoder, model, model_loaded, request_count, model_predictions,
             start_time, inflight, n_received, n_succeeded, n_failed>>

\* performance_monitor.py:207: `if len(self.metrics_history) > 100`
HistoryLimit == 100
\* performance_monitor.py:194: self.run_load_test(5)
LoadTestRequests == 5
\* performance_monitor.py:355: `> 5.0`, in seconds
SlowHealth == 5
\* performance_monitor.py:358: `> 2.0`, in seconds
SlowPrediction == 2
\* performance_monitor.py:362: `< 0.8`
LowSuccessRate == [num |-> 8, den |-> 10]

\* a Python float holding t (seconds, or a count)
Float(t) == [type |-> "float", value |-> t]

\* a / b as a ratio
Ratio(a, b) == [num |-> a, den |-> b]

\* x < y on ratios with positive denominators
Less(x, y) == x.num * y.den < y.num * x.den

\* dict.get(key, default): the default only when the key is absent
Get(dict, key, default) == IF key \in DOMAIN dict THEN dict[key] ELSE default

(***************************************************************************)
(* What requests.get / requests.post give the monitor.  An environment     *)
(* `env` names the outcomes a specification lets happen: the elapsed times *)
(* in seconds, the failures between monitor and service ("gateway": an     *)
(* intermediary answers 502; "transport": connection error or the 10 s     *)
(* timeout, a RequestException), the statement of predict_income that      *)
(* raises, and the number of load-test requests answered 200.              *)
(***************************************************************************)
Answer(response, t) ==
    [raised |-> FALSE, status_code |-> response.status_code,
     json |-> response.content, elapsed |-> t]

BadGateway == [status_code |-> 502, content |-> [none |-> TRUE]]

RequestException ==
    [raised |-> TRUE, status_code |-> 0, json |-> [none |-> TRUE], elapsed |-> 0]

\* the outcomes of a call that the service would answer with one of `responses`
Calls(responses, elapsed, failures) ==
    {Answer(response, t) : response \in responses, t \in elapsed}
    \cup (IF "gateway" \in failures
          THEN {Answer(BadGateway, t) : t \in elapsed} ELSE {})
    \cup (IF "transport" \in failures THEN {RequestException} ELSE {})

\* performance_monitor.py:77-92
test_data == ValidBody("A")

\* what the service answers to GET /v1/metrics in its present state
MetricsResponse ==
    [status_code |-> 200,
     content |-> [request_count |-> request_count,
                  prediction_distribution |-> model_predictions]]

\* str(e) of a RequestException, and f'HTTP {response.status_code}'
TransportError == [kind |-> "RequestException", status_code |-> 0]

HTTPError(status_code) == [kind |-> "HTTP", status_code |-> status_code]

(***************************************************************************)
(* The three probes, as functions of the outcome of their HTTP call.       *)
(***************************************************************************)
\* check_health, performance_monitor.py:46-73
HealthResult(call) ==
    IF call.raised
    THEN [status |-> "error", error |-> TransportError,
          response_time |-> None]
    ELSE IF call.status_code = 200
    THEN [status |-> "healthy", response_time |-> Float(call.elapsed),
          model_loaded |-> Get(call.json, "model_loaded", FALSE)]
    ELSE [status |-> "unhealthy", response_time |-> Float(call.elapsed),
          error |-> HTTPError(call.status_code)]

\* check_prediction_performance, performance_monitor.py:75-124
PredictionResult(call) ==
    IF call.raised
    THEN [status |-> "error", error |-> TransportError,
          response_time |-> None]
    ELSE IF call.status_code = 200
    THEN [status |-> "success", response_time |-> Float(call.elapsed),
          prediction |-> Get(call.json, "prediction", None),
          confidence |-> Get(call.json, "confidence", None)]
    ELSE [status |-> "error", response_time |-> Float(call.elapsed),
          error |-> HTTPError(call.status_code)]

\* get_api_metrics, performance_monitor.py:126-135
ApiMetricsResult(call) ==
    IF call.raised THEN [error |-> TransportError]
    ELSE IF call.status_code = 200 THEN call.json
    ELSE [error |-> HTTPError(call.status_code)]

\* run_load_test, performance_monitor.py:137-176, for the number of its
\* requests that came back 'success'
LoadTestResult(total, successful) ==
    [total_requests |-> total,
     successful_requests |-> successful,
     success_rate |-> Ratio(successful, total)]

(***************************************************************************)
(* The monitor process: main() in continuous mode, start_monitoring and    *)
(* what it calls.  monitor_pc names the statement the process is about to  *)
(* execute; the network calls, the sleep and the statements between them   *)
(* are the steps, and a KeyboardInterrupt can arrive before any of them.   *)
(***************************************************************************)
Pending == [status |-> "pending"]

\* the statements inside the try block of start_monitoring
TryBlock == {"while", "check_health", "check_prediction_performance",
             "get_api_metrics", "run_load_test", "append", "check_alerts",
             "sleep"}

At(pc) == monitor_pc = pc /\ raising = "none"

\* Mutation of Sent: a call that failed at the transport level is made a
\* second time.
Sent_retried(probe, route, call) ==
    IF call.raised
    THEN http_log \o << [probe |-> probe, route |-> route, raised |-> TRUE],
                        [probe |-> probe, route |-> route, raised |-> TRUE] >>
    ELSE Append(http_log, [probe |-> probe, route |-> route, raised |-> FALSE])

\* the one requests.get / requests.post of a probe (performance_monitor.py:
\* 51, 96-101, 129): http_log once the request was sent and `call` came back
Sent(probe, route, call) ==
    Append(http_log, [probe |-> probe, route |-> route, raised |-> call.raised])

\* the requests of one load test: n threads, each sending one
Batch(n) == [i \in 1..n |-> [probe |-> "load_test", route |-> "POST /v1/predict"]]

Goto(pc) == monitor_pc' = pc

\* The logs directory is created outside the monitor (by hand, or by an
\* earlier run) before the monitor is constructed.
mkdir_logs ==
    /\ At("init")
    /\ ~logs_dir
    /\ logs_dir' = TRUE
    /\ UNCHANGED <<service, loadtest, http_log, running, metrics_history,
                   monitor_pc, metrics, alert_log, saved, n_cycles, raising,
                   interrupted>>

\* APIMonitor.__init__, performance_monitor.py:26-44, called by main() (389):
\* logging.FileHandler('logs/monitor.log') opens the file at line 37 and
\* raises FileNotFoundError when the directory is missing;
\* Path('logs').mkdir(exist_ok=True) comes after it, at line 44.
APIMonitor_init ==
    /\ At("init")
    /\ running' = FALSE
    /\ metrics_history' = <<>>
    /\ IF logs_dir
       THEN Goto("main") /\ UNCHANGED raising
       ELSE Goto("init_failed") /\ raising' = "FileNotFoundError"
    /\ UNCHANGED <<service, loadtest, logs_dir, http_log, metrics, alert_log,
                   saved, n_cycles, interrupted>>

\* performance_monitor.py:317-318, entered from main() (line 399)
start_monitoring ==
    /\ At("main")
    /\ running' = TRUE
    /\ Goto("try")
    /\ UNCHANGED <<service, loadtest, logs_dir, http_log,
                   metrics_history, metrics, alert_log, saved, n_cycles,
                   raising, interrupted>>

\* performance_monitor.py:320-321 and 180-182: the loop test and, when it
\* passes, the start of collect_metrics (the timestamp is taken); at most
\* `limit` cycles are run
while_running(limit) ==
    /\ At("try") \/ At("while")
    /\ n_cycles < limit
    /\ IF running
       THEN /\ metrics' = [timestamp |-> n_cycles + 1, health |-> Pending,
                           prediction |-> Pending, api_metrics |-> Pending,
                           load_test |-> Pending]
            /\ http_log' = <<>>
            /\ Goto("check_health")
       ELSE /\ Goto("finally")
            /\ UNCHANGED <<metrics, http_log>>
    /\ UNCHANGED <<service, loadtest, logs_dir,
                   running, metrics_history, alert_log, saved,
                   n_cycles, raising, interrupted>>

\* Mutation of check_health: a health check that failed at the transport
\* level ends the collection, the other probes are skipped.
check_health_aborting(env) ==
    /\ At("check_health")
    /\ \E call \in Calls({HealthResponse}, env.health_elapsed, env.failures) :
          /\ metrics' = [metrics EXCEPT !.health = HealthResult(call)]
          /\ http_log' = Sent("health", "GET /v1/health", call)
          /\ Goto(IF call.raised THEN "append"
                                 ELSE "check_prediction_performance")
    /\ UNCHANGED <<service, loadtest, logs_dir,
                   running, metrics_history, alert_log, saved, n_cycles,
                   raising, interrupted>>

\* performance_monitor.py:185, check_health
check_health(env) ==
    /\ At("check_health")
    /\ \E call \in Calls({HealthResponse}, env.health_elapsed, env.failures) :
          /\ metrics' = [metrics EXCEPT !.health = HealthResult(call)]
          /\ http_log' = Sent("health", "GET /v1/health", call)
    /\ Goto("check_prediction_performance")
    /\ UNCHANGED <<service, loadtest, logs_dir,
                   running, metrics_history, alert_log, saved, n_cycles,
                   raising, interrupted>>

\* the answers of the service to POST /v1/predict with test_data
PredictionAnswers(env) ==
    {PredictResponse(predict_income(Parse(test_data), fault)) :
        fault \in env.faults}

\* performance_monitor.py:188, check_prediction_performance
check_prediction_performance(env) ==
    /\ At("check_prediction_performance")
    /\ \E call \in Calls(PredictionAnswers(env), env.prediction_elapsed,
                         env.failures \ {"gateway"}) :
          /\ metrics' = [metrics EXCEPT !.prediction = PredictionResult(call)]
          /\ http_log' = Sent("prediction", "POST /v1/predict", call)
    /\ Goto("get_api_metrics")
    /\ UNCHANGED <<service, loadtest, logs_dir,
                   running, metrics_history, alert_log, saved, n_cycles,
                   raising, interrupted>>

\* performance_monitor.py:191, get_api_metrics
get_api_metrics(env) ==
    /\ At("get_api_metrics")
    /\ \E call \in Calls({MetricsResponse}, {1}, env.failures \ {"gateway"}) :
          /\ metrics' = [metrics EXCEPT !.api_metrics = ApiMetricsResult(call)]
          /\ http_log' = Sent("api_metrics", "GET /v1/metrics", call)
    /\ Goto("run_load_test")
    /\ UNCHANGED <<service, loadtest, logs_dir,
                   running, metrics_history, alert_log, saved, n_cycles,
                   raising, interrupted>>

\* performance_monitor.py:194, run_load_test(5): a service that is not
\* loaded answers none of the requests with 200
run_load_test(env) ==
    /\ At("run_load_test")
    /\ \E successful \in (IF model_loaded THEN env.successes ELSE {0}) :
          metrics' = [metrics EXCEPT !.load_test =
                         LoadTestResult(LoadTestRequests, successful)]
    /\ http_log' = http_log \o Batch(LoadTestRequests)
    /\ Goto("append")
    /\ UNCHANGED <<service, loadtest, logs_dir,
                   running, metrics_history, alert_log, saved, n_cycles,
                   raising, interrupted>>

\* Mutation of Trim: the first 100 entries are kept, self.metrics_history[:100].
Trim_oldest(history) ==
    IF Len(history) > HistoryLimit THEN SubSeq(history, 1, HistoryLimit)
                                   ELSE history

\* performance_monitor.py:207-208: self.metrics_history[-100:]
Trim(history) ==
    IF Len(history) > HistoryLimit
    THEN SubSeq(history, Len(history) - HistoryLimit + 1, Len(history))
    ELSE history

\* performance_monitor.py:196-210 and 324-333: the entry is appended, the
\* history trimmed, the metrics returned and the status line logged
collect_metrics ==
    /\ At("append")
    /\ metrics_history' = Trim(Append(metrics_history, metrics))
    /\ n_cycles' = n_cycles + 1
    /\ Goto("check_alerts")
    /\ UNCHANGED <<service, loadtest, logs_dir, http_log,
                   running, metrics, alert_log, saved, raising,
                   interrupted>>

\* check_alerts, performance_monitor.py:348-363: the alerts list it builds,
\* or the exception that ends it.  `x > 5.0` raises TypeError when x is None.
Alerts(m) ==
    LET health_time     == Get(m.health, "response_time", Float(0))
        prediction_time == Get(m.prediction, "response_time", Float(0))
        health_alert == IF m.health.status # "healthy"
                        THEN <<"API Health">> ELSE <<>>
    IN  IF health_time = None
        THEN [raised |-> "TypeError", alerts |-> health_alert]
        ELSE IF prediction_time = None
        THEN [raised |-> "TypeError",
              alerts |-> health_alert
                         \o IF health_time.value > SlowHealth
                            THEN <<"Slow health response">> ELSE <<>>]
        ELSE [raised |-> "none",
              alerts |-> health_alert
                         \o (IF health_time.value > SlowHealth
                             THEN <<"Slow health response">> ELSE <<>>)
                         \o (IF prediction_time.value > SlowPrediction
                             THEN <<"Slow prediction response">> ELSE <<>>)
                         \o (IF Less(m.load_test.success_rate, LowSuccessRate)
                             THEN <<"Low success rate">> ELSE <<>>)]

\* the lines logger.warning writes for the alerts of cycle `timestamp`
Warnings(timestamp, alerts) ==
    [i \in 1..Len(alerts) |-> [timestamp |-> timestamp, alert |-> alerts[i]]]

\* performance_monitor.py:336 and 346-367: the alerts are logged once the
\* whole list is built; an exception leaves check_alerts before that
check_alerts ==
    /\ At("check_alerts")
    /\ IF Alerts(metrics).raised = "none"
       THEN /\ alert_log' = alert_log
                            \o Warnings(metrics.timestamp, Alerts(metrics).alerts)
            /\ Goto("sleep")
            /\ UNCHANGED raising
       ELSE /\ raising' = Alerts(metrics).raised
            /\ Goto("finally")
            /\ UNCHANGED alert_log
    /\ UNCHANGED <<service, loadtest, logs_dir, http_log,
                   running, metrics_history, metrics, saved, n_cycles,
                   interrupted>>

\* performance_monitor.py:338, time.sleep(self.interval)
sleep ==
    /\ At("sleep")
    /\ Goto("while")
    /\ UNCHANGED <<service, loadtest, logs_dir, http_log,
                   running, metrics_history, metrics, alert_log,
                   saved, n_cycles, raising, interrupted>>

\* The operator interrupts the process (SIGINT).  Inside the try block the
\* except clause of start_monitoring catches it (340-341); before the try
\* block is entered it propagates to main().
KeyboardInterrupt ==
    /\ ~interrupted
    /\ raising = "none"
    /\ monitor_pc \in TryBlock \cup {"try"}
    /\ interrupted' = TRUE
    /\ IF monitor_pc \in TryBlock
       THEN Goto("finally") /\ UNCHANGED raising
       ELSE Goto("main_except") /\ raising' = "KeyboardInterrupt"
    /\ UNCHANGED <<service, loadtest, logs_dir, http_log,
                   running, metrics_history, metrics, alert_log,
                   saved, n_cycles>>

\* Mutation of start_monitoring_finally: an empty history is not written.
start_monitoring_finally_nonempty ==
    /\ monitor_pc = "finally"
    /\ running' = FALSE
    /\ saved' = IF metrics_history = <<>> THEN saved
                ELSE Append(saved, metrics_history)
    /\ Goto(IF raising = "none" THEN "returned" ELSE "crashed")
    /\ UNCHANGED <<service, loadtest, logs_dir, http_log,
                   metrics_history, metrics, alert_log, n_cycles,
                   raising, interrupted>>

\* performance_monitor.py:342-344 and save_metrics (212-221); an exception
\* that is not a KeyboardInterrupt then leaves start_monitoring and main()
start_monitoring_finally ==
    /\ monitor_pc = "finally"
    /\ running' = FALSE
    /\ saved' = Append(saved, metrics_history)
    /\ Goto(IF raising = "none" THEN "returned" ELSE "crashed")
    /\ UNCHANGED <<service, loadtest, logs_dir, http_log,
                   metrics_history, metrics, alert_log, n_cycles,
                   raising, interrupted>>

\* performance_monitor.py:400-402: main() catches the KeyboardInterrupt that
\* left start_monitoring and calls stop_monitoring (369-371)
main_except ==
    /\ monitor_pc = "main_except"
    /\ raising = "KeyboardInterrupt"
    /\ running' = FALSE
    /\ raising' = "none"
    /\ Goto("exited")
    /\ UNCHANGED <<service, loadtest, logs_dir, http_log,
                   metrics_history, metrics, alert_log, saved, n_cycles,
                   interrupted>>

(***************************************************************************)
(* The specifications of the monitor.                                      *)
(* SpecMonitor: the loop over MaxCycles cycles, each call succeeding or    *)
(*   failing at the transport level.                                       *)
(* SpecAlerts: one cycle, with every outcome of every call around the      *)
(*   alert thresholds.                                                     *)
(* SpecHistory: HistoryLimit + MaxCycles cycles against a service that     *)
(*   answers every call in one second.                                     *)
(***************************************************************************)
LoopEnv ==
    [health_elapsed |-> {1}, prediction_elapsed |-> {1},
     failures |-> {"transport"}, faults |-> {"none"},
     successes |-> {0, LoadTestRequests}]

AlertEnv ==
    [health_elapsed |-> {SlowHealth, SlowHealth + 1},
     prediction_elapsed |-> {SlowPrediction, SlowPrediction + 1},
     failures |-> {"gateway", "transport"}, faults |-> {"none", "inference"},
     successes |-> 0..LoadTestRequests]

NominalEnv ==
    [health_elapsed |-> {1}, prediction_elapsed |-> {1},
     failures |-> {}, faults |-> {"none"},
     successes |-> {LoadTestRequests}]

NextMonitor ==
    \/ mkdir_logs
    \/ APIMonitor_init
    \/ start_monitoring
    \/ while_running(MaxCycles)
    \/ check_health(LoopEnv)
    \/ check_prediction_performance(LoopEnv)
    \/ get_api_metrics(LoopEnv)
    \/ run_load_test(LoopEnv)
    \/ collect_metrics
    \/ check_alerts
    \/ sleep
    \/ KeyboardInterrupt
    \/ start_monitoring_finally
    \/ main_except

SpecMonitor == Init /\ [][NextMonitor]_vars

NextAlerts ==
    \/ mkdir_logs
    \/ APIMonitor_init
    \/ start_monitoring
    \/ while_running(1)
    \/ check_health(AlertEnv)
    \/ check_prediction_performance(AlertEnv)
    \/ get_api_metrics(AlertEnv)
    \/ run_load_test(AlertEnv)
    \/ collect_metrics
    \/ check_alerts
    \/ sleep
    \/ KeyboardInterrupt
    \/ start_monitoring_finally
    \/ main_except

SpecAlerts == Init /\ [][NextAlerts]_vars

NextHistory ==
    \/ mkdir_logs
    \/ APIMonitor_init
    \/ start_monitoring
    \/ while_running(HistoryLimit + MaxCycles)
    \/ check_health(NominalEnv)
    \/ check_prediction_performance(NominalEnv)
    \/ get_api_metrics(NominalEnv)
    \/ run_load_test(NominalEnv)
    \/ collect_metrics
    \/ check_alerts
    \/ sleep
    \/ KeyboardInterrupt
    \/ start_monitoring_finally
    \/ main_except

SpecHistory == Init /\ [][NextHistory]_vars

(***************************************************************************)
(* Vocabulary of the monitor's properties.                                 *)
(***************************************************************************)
\* the smaller of a and b
Min(a, b) == IF a < b THEN a ELSE b

\* the alerts logged for the cycle stamped `timestamp`
LoggedFor(timestamp) ==
    {alert_log[i].alert :
        i \in {j \in 1..Len(alert_log) : alert_log[j].timestamp = timestamp}}

\* check_alerts has run, to its end or to an exception, on the cycle in
\* `metrics`
AlertsChecked == monitor_pc = "sleep" \/ raising = "TypeError"

\* the alert conditions that hold for cycle m; a call that failed at the
\* transport level recorded no response time and so is not slow
ExpectedAlerts(m) ==
    (IF m.health.status # "healthy" THEN {"API Health"} ELSE {})
    \cup (IF /\ m.health.response_time # None
             /\ m.health.response_time.value > 5
          THEN {"Slow health response"} ELSE {})
    \cup (IF /\ m.prediction.response_time # None
             /\ m.prediction.response_time.value > 2
          THEN {"Slow prediction response"} ELSE {})
    \cup (IF m.load_test.successful_requests * 10 < 8 * m.load_test.total_requests
          THEN {"Low success rate"} ELSE {})

\* the health probe of the cycle in `metrics` was answered by the service
HealthAnswered ==
    /\ "health" \in DOMAIN metrics
    /\ "model_loaded" \in DOMAIN metrics.health

\* start_monitoring has been left
Stopped == monitor_pc \in {"returned", "crashed", "main_except", "exited"}

(***************************************************************************)
(* C16.  After n monitoring cycles metrics_history holds exactly the       *)
(* min(n, 100) most recent entries, in chronological order; its length     *)
(* never exceeds 100 after a cycle.                                        *)
(***************************************************************************)
C16_RecentHistory ==
    /\ Len(metrics_history) = Min(n_cycles, 100)
    /\ \A i \in 1..Len(metrics_history) :
          metrics_history[i].timestamp = n_cycles - Len(metrics_history) + i

\* the 101st cycle was collected: the entry of the first one is gone
C16_Witness ==
    /\ n_cycles = 101
    /\ Len(metrics_history) = 100
    /\ metrics_history[1].timestamp = 2
    /\ metrics_history[100].timestamp = 101

(***************************************************************************)
(* C17.  check_alerts logs an alert for each of these conditions that      *)
(* holds for the cycle and for no other: health status other than          *)
(* 'healthy'; health response time above 5 s; prediction response time     *)
(* above 2 s; load-test success rate below 0.8 (strictly: 4 of 5 raises    *)
(* none).  This includes the cycles whose health or prediction call failed *)
(* at the transport level and recorded no response time.                   *)
(***************************************************************************)
C17_AlertsExact ==
    AlertsChecked => LoggedFor(metrics.timestamp) = ExpectedAlerts(metrics)

\* the part of C17 that holds: the cycles whose two probes were answered
C17_AlertsExactWhenTimed ==
    (/\ AlertsChecked
     /\ metrics.health.response_time # None
     /\ metrics.prediction.response_time # None) =>
        LoggedFor(metrics.timestamp) = ExpectedAlerts(metrics)

(***************************************************************************)
(* C18.  When the polled service is unhealthy (model not loaded, body      *)
(* status 'unhealthy'), the cycle records a health status other than       *)
(* 'healthy' and raises a health alert for that cycle.                     *)
(***************************************************************************)
C18_UnhealthyAlerted ==
    (~model_loaded /\ HealthAnswered) =>
        /\ metrics.health.status # "healthy"
        /\ monitor_pc = "sleep" => "API Health" \in LoggedFor(metrics.timestamp)

(***************************************************************************)
(* C19.  The monitoring loop never terminates because of a failed cycle,   *)
(* whatever the outcomes of the calls and the alerts raised:               *)
(* start_monitoring is left only on an external interrupt.                 *)
(***************************************************************************)
C19_StopsOnlyOnInterrupt ==
    (monitor_pc = "finally" \/ Stopped) => interrupted

C25_LoadedIffBoth ==
    /\ model_loaded <=> (encoder # None /\ model # None)
    /\ ~model_loaded => (encoder = None /\ model = None)

\* loading failed, and the process has answered a health check since
C25_Witness ==
    /\ ~model_loaded
    /\ encoder = None
    /\ model = None
    /\ \E r \in RespondedOn("GET /v1/health") :
          r.response.content.model_loaded = FALSE

\* the requests the current cycle has sent for `probe`
SentFor(probe) == {i \in 1..Len(http_log) : http_log[i].probe = probe}

\* the single calls of a cycle
Probes == {"health", "prediction", "api_metrics"}

\* `sample` is an error sample without a response time
ErrorSample(sample) ==
    /\ "error" \in DOMAIN sample
    /\ "status" \in DOMAIN sample => sample.status = "error"
    /\ "response_time" \in DOMAIN sample => sample.response_time = None

(***************************************************************************)
(* C21.  A monitor call (health check, synthetic prediction, metrics       *)
(* fetch) sends exactly one HTTP request in its cycle, also when it times  *)
(* out or fails at the network level; such a call is not retried, raises   *)
(* nothing to its caller and is recorded as an error sample (status        *)
(* 'error' or an 'error' field, no response time).                         *)
(***************************************************************************)
C21_OneRequestErrorSample ==
    \A probe \in Probes :
        /\ Cardinality(SentFor(probe)) <= 1
        /\ \A i \in SentFor(probe) :
              /\ metrics[probe] # Pending
              /\ http_log[i].raised =>
                    /\ ErrorSample(metrics[probe])
                    /\ raising # "RequestException"

\* the health check failed at the transport level and the cycle went on to
\* its load test
C21_Witness ==
    /\ monitor_pc = "run_load_test"
    /\ raising = "none"
    /\ Len(http_log) = 3
    /\ http_log[1].probe = "health"
    /\ http_log[1].raised
    /\ metrics.health.status = "error"

\* the requests of a complete cycle, in the order of collect_metrics
CycleProbes ==
    <<"health", "prediction", "api_metrics",
      "load_test", "load_test", "load_test", "load_test", "load_test">>

CycleRoutes ==
    <<"GET /v1/health", "POST /v1/predict", "GET /v1/metrics",
      "POST /v1/predict", "POST /v1/predict", "POST /v1/predict",
      "POST /v1/predict", "POST /v1/predict">>

\* the calls of the cycle in `metrics` have all returned
Collected == monitor_pc \in {"append", "check_alerts", "sleep"}

\* the requests sent so far in the cycle are the first ones of a complete
\* cycle, in order; a collected cycle has sent them all and holds the four
\* results
C24_InOrder ==
    /\ Len(http_log) <= 8
    /\ \A i \in 1..Len(http_log) :
          /\ http_log[i].probe = CycleProbes[i]
          /\ http_log[i].route = CycleRoutes[i]
    /\ Collected =>
          /\ Len(http_log) = 8
          /\ metrics.health # Pending
          /\ metrics.prediction # Pending
          /\ metrics.api_metrics # Pending
          /\ metrics.load_test.total_requests = 5

\* the history changes only by the one entry of a cycle that was collected
C24_OneEntry ==
    metrics_history' # metrics_history =>
        /\ monitor_pc = "append"
        /\ Len(http_log) = 8
        /\ n_cycles' = n_cycles + 1
        /\ Len(metrics_history') = Len(metrics_history) + 1
        /\ metrics_history'[Len(metrics_history')] = metrics
        /\ SubSeq(metrics_history', 1, Len(metrics_history)) = metrics_history

(***************************************************************************)
(* C24.  Every collect_metrics cycle performs, in this order, one health   *)
(* check, one synthetic prediction, one metrics fetch and one load test of *)
(* 5 predictions; it performs all four even when an earlier one fails, and *)
(* appends exactly one entry to the history per cycle.                     *)
(***************************************************************************)
C24_CycleOrder == []C24_InOrder /\ [][C24_OneEntry]_vars

\* the health check of the second cycle failed at the transport level; the
\* cycle sent its eight requests all the same and its entry is the second
\* of the history
C24_Witness ==
    /\ monitor_pc = "check_alerts"
    /\ Len(http_log) = 8
    /\ http_log[1].raised
    /\ Len(metrics_history) = 2
    /\ metrics_history[2] = metrics

(***************************************************************************)
(* C26.  Constructing an APIMonitor succeeds whether or not the logs       *)
(* directory already exists: the directory is made to exist before the log *)
(* file logs/monitor.log is opened.                                        *)
(***************************************************************************)
C26_ConstructionSucceeds ==
    monitor_pc # "init" =>
        /\ monitor_pc # "init_failed"
        /\ raising # "FileNotFoundError"
        /\ logs_dir

\* the part of C26 that holds: with the directory there, construction succeeds
C26_SucceedsWithDirectory ==
    (monitor_pc # "init" /\ logs_dir) => monitor_pc # "init_failed"

(***************************************************************************)
(* run_load_test thread by thread (performance_monitor.py:137-176).  The   *)
(* cycle above takes a load test as one step, by its outcome; here one     *)
(* call run_load_test(num_requests) on a constructed monitor is followed   *)
(* through its worker threads and the statements of the calling thread.    *)
(* A thread switch can come between any two statements, also between the   *)
(* load and the store of `successful_requests += 1`, which no lock guards. *)
(***************************************************************************)
\* the other variables of the monitor
monitoring == <<running, metrics_history, monitor_pc, metrics, alert_log,
                saved, n_cycles, raising, interrupted, http_log, logs_dir>>

\* performance_monitor.py:160: thread.join(timeout=30), in seconds
JoinTimeout == 30

\* the calls of the load test: answered in a second, answered after the join
\* gave up, or failed at the transport level
LoadEnv ==
    [prediction_elapsed |-> {1, JoinTimeout + 1},
     failures |-> {"transport"}, faults |-> {"none"}]

\* Sum of the numbers of sequence s
RECURSIVE Sum(_)
Sum(s) == IF s = <<>> THEN 0 ELSE s[1] + Sum(Tail(s))

\* sorted(s)
RECURSIVE Sorted(_)
Sorted(s) ==
    IF s = <<>> THEN <<>>
    ELSE LET i == CHOOSE i \in 1..Len(s) : \A j \in 1..Len(s) : s[i] <= s[j]
         IN  <<s[i]>> \o Sorted(SubSeq(s, 1, i - 1) \o SubSeq(s, i + 1, Len(s)))

\* statistics.mean, min, max, statistics.median of a non-empty list
Mean(s) == Ratio(Sum(s), Len(s))

Minimum(s) == Sorted(s)[1]

Maximum(s) == Sorted(s)[Len(s)]

Median(s) ==
    IF Len(s) % 2 = 1
    THEN Ratio(Sorted(s)[(Len(s) + 1) \div 2], 1)
    ELSE Ratio(Sorted(s)[Len(s) \div 2] + Sorted(s)[Len(s) \div 2 + 1], 2)

\* performance_monitor.py:165: the response times of the results that have one
ResponseTimes(rs) ==
    LET timed == SelectSeq(rs, LAMBDA r : Get(r, "response_time", None) # None)
    IN  [i \in 1..Len(timed) |-> timed[i].response_time.value]

\* performance_monitor.py:172-175
Statistics(times) ==
    IF times = <<>>
    THEN [avg_response_time |-> None, min_response_time |-> None,
          max_response_time |-> None, median_response_time |-> None]
    ELSE [avg_response_time |-> Mean(times),
          min_response_time |-> Float(Minimum(times)),
          max_response_time |-> Float(Maximum(times)),
          median_response_time |-> Median(times)]

\* performance_monitor.py:139-155 (and 389): run_load_test(n) is called; the
\* n threads are created and started, each with the call it is going to make
run_load_test_call(n) ==
    /\ At("main")
    /\ load_pc.at = "idle"
    /\ num_requests' = n
    /\ results' = <<>>
    /\ successful_requests' = 0
    /\ \E calls \in [1..n -> Calls(PredictionAnswers(LoadEnv),
                                   LoadEnv.prediction_elapsed,
                                   LoadEnv.failures)] :
          threads' = [i \in 1..n |->
                        [pc |-> "check_prediction_performance",
                         call |-> calls[i], loaded |-> 0]]
    /\ load_pc' = [at |-> "join", thread |-> 1]
    /\ UNCHANGED <<service, monitoring, response_times, load_test, joined>>

\* make_request, performance_monitor.py:143-145: the thread's request comes
\* back and its result is appended
make_request(i) ==
    /\ i \in DOMAIN threads
    /\ threads[i].pc = "check_prediction_performance"
    /\ results' = Append(results, PredictionResult(threads[i].call))
    /\ threads' = [threads EXCEPT ![i].pc =
                      IF PredictionResult(threads[i].call).status = "success"
                      THEN "load" ELSE "done"]
    /\ UNCHANGED <<service, monitoring, load_pc, num_requests,
                   successful_requests, response_times, load_test, joined>>

\* performance_monitor.py:147, successful_requests += 1: the load
increment_load(i) ==
    /\ i \in DOMAIN threads
    /\ threads[i].pc = "load"
    /\ threads' = [threads EXCEPT ![i].pc = "store",
                                  ![i].loaded = successful_requests]
    /\ UNCHANGED <<service, monitoring, load_pc, num_requests, results,
                   successful_requests, response_times, load_test, joined>>

\* performance_monitor.py:147, successful_requests += 1: the store
increment_store(i) ==
    /\ i \in DOMAIN threads
    /\ threads[i].pc = "store"
    /\ successful_requests' = threads[i].loaded + 1
    /\ threads' = [threads EXCEPT ![i].pc = "done"]
    /\ UNCHANGED <<service, monitoring, load_pc, num_requests, results,
                   response_times, load_test, joined>>

\* the calling thread leaves thread.join for thread load_pc.thread; after
\* the last one, what stands now is remembered
Joined ==
    /\ load_pc' = IF load_pc.thread < num_requests
                  THEN [at |-> "join", thread |-> load_pc.thread + 1]
                  ELSE [at |-> "response_times", thread |-> 0]
    /\ joined' = IF load_pc.thread < num_requests THEN joined
                 ELSE [results |-> results,
                       successful_requests |-> successful_requests,
                       unfinished |-> {i \in DOMAIN threads :
                                          threads[i].pc # "done"}]
    /\ UNCHANGED <<service, monitoring, num_requests, threads, results,
                   successful_requests, response_times, load_test>>

\* performance_monitor.py:160: the thread has finished
thread_join ==
    /\ load_pc.at = "join"
    /\ threads[load_pc.thread].pc = "done"
    /\ Joined

\* performance_monitor.py:160: the thread's request is still out after 30 s
thread_join_timeout ==
    /\ load_pc.at = "join"
    /\ threads[load_pc.thread].pc = "check_prediction_performance"
    /\ threads[load_pc.thread].call.elapsed > JoinTimeout
    /\ Joined

\* performance_monitor.py:165
collect_response_times ==
    /\ load_pc.at = "response_times"
    /\ response_times' = ResponseTimes(results)
    /\ load_pc' = [at |-> "successful_requests", thread |-> 0]
    /\ UNCHANGED <<service, monitoring, num_requests, threads, results,
                   successful_requests, load_test, joined>>

\* performance_monitor.py:167-169: the first entries of the dict
read_successful_requests ==
    /\ load_pc.at = "successful_requests"
    /\ load_test' = [total_requests |-> num_requests,
                     successful_requests |-> successful_requests]
    /\ load_pc' = [at |-> "success_rate", thread |-> 0]
    /\ UNCHANGED <<service, monitoring, num_requests, threads, results,
                   successful_requests, response_times, joined>>

\* performance_monitor.py:170-176: the rest of the dict, and the return
return_load_test ==
    /\ load_pc.at = "success_rate"
    /\ load_test' =
          [total_requests |-> load_test.total_requests,
           successful_requests |-> load_test.successful_requests,
           success_rate |-> Ratio(successful_requests, num_requests),
           avg_response_time |-> Statistics(response_times).avg_response_time,
           min_response_time |-> Statistics(response_times).min_response_time,
           max_response_time |-> Statistics(response_times).max_response_time,
           median_response_time |->
               Statistics(response_times).median_response_time]
    /\ load_pc' = [at |-> "returned", thread |-> 0]
    /\ UNCHANGED <<service, monitoring, num_requests, threads, results,
                   successful_requests, response_times, joined>>

(***************************************************************************)
(* SpecLoadTest: one call run_load_test(n), n in 1..MaxThreads.            *)
(***************************************************************************)
NextLoadTest ==
    \/ mkdir_logs
    \/ APIMonitor_init
    \/ \E n \in 1..MaxThreads : run_load_test_call(n)
    \/ \E i \in 1..MaxThreads : make_request(i)
    \/ \E i \in 1..MaxThreads : increment_load(i)
    \/ \E i \in 1..MaxThreads : increment_store(i)
    \/ thread_join
    \/ thread_join_timeout
    \/ collect_response_times
    \/ read_successful_requests
    \/ return_load_test

SpecLoadTest == Init /\ [][NextLoadTest]_vars

(***************************************************************************)
(* Vocabulary of the load test's properties.                               *)
(***************************************************************************)
\* run_load_test has returned its dict
Returned == load_pc.at = "returned"

\* the number of results with status 'success' in rs
Successes(rs) == Cardinality({i \in 1..Len(rs) : rs[i].status = "success"})

\* the dict run_load_test returns for the results rs and the count k
Report(n, rs, k) ==
    [total_requests |-> n,
     successful_requests |-> k,
     success_rate |-> Ratio(k, n),
     avg_response_time |-> Statistics(ResponseTimes(rs)).avg_response_time,
     min_response_time |-> Statistics(ResponseTimes(rs)).min_response_time,
     max_response_time |-> Statistics(ResponseTimes(rs)).max_response_time,
     median_response_time |->
         Statistics(ResponseTimes(rs)).median_response_time]

(***************************************************************************)
(* C22.  run_load_test joins its threads with a bounded wait before        *)
(* computing the statistics; a request still unfinished at the bound is    *)
(* excluded from the sample: the dict returned is the one of the results   *)
(* and of the count that stood when the last join ended, whatever the      *)
(* unfinished requests do while or after it is computed.                   *)
(***************************************************************************)
C22_StragglersExcluded ==
    Returned =>
        load_test = Report(num_requests, joined.results,
                           joined.successful_requests)

\* the part of C22 that holds: when every thread had finished at the end of
\* the joins, the dict is the one of what stood then
C22_WithoutStragglers ==
    (Returned /\ joined.unfinished = {}) =>
        load_test = Report(num_requests, joined.results,
                           joined.successful_requests)

(***************************************************************************)
(* C23.  For every run_load_test(N), N >= 1, and every interleaving of its *)
(* worker threads (here already for the runs in which every thread had     *)
(* finished when the joins ended): the reported successful_requests is the *)
(* number of collected results with status 'success', successful_requests  *)
(* <= number of collected results <= N, success_rate is                    *)
(* successful_requests / N and lies in [0, 1], and the response-time       *)
(* statistics are those of the samples that have a response time, all None *)
(* when there is none.                                                     *)
(***************************************************************************)
C23_ReportConsistent ==
    (Returned /\ joined.unfinished = {}) =>
        /\ num_requests >= 1
        /\ load_test.successful_requests = Successes(results)
        /\ load_test.successful_requests <= Len(results)
        /\ Len(results) <= num_requests
        /\ load_test.success_rate =
              Ratio(load_test.successful_requests, num_requests)
        /\ load_test.success_rate.num >= 0
        /\ load_test.success_rate.num <= load_test.success_rate.den
        /\ load_test = Report(num_requests, results,
                              load_test.successful_requests)

\* the part of C23 that holds under every interleaving: the count is never
\* above the number of successes collected, and the rate lies in [0, 1]
C23_Bounds ==
    Returned =>
        /\ load_test.successful_requests <= Successes(results)
        /\ Len(results) <= num_requests
        /\ load_test.success_rate.num >= 0
        /\ load_test.success_rate.num <= load_test.success_rate.den
        /\ ResponseTimes(results) = <<>> =>
              load_test.avg_response_time = None

====
